---- MODULE Spec2Model ----
(***************************************************************************)
(* Model of source/lib/debug_stl.cpp: the in-place type-name simplifier    *)
(* stl_simplify_name and the STL container inspection stl_get_container_info*)
(* with its Any_* adapters and stl_iterator step functions.                *)
(***************************************************************************)
EXTENDS Integers, Sequences, FiniteSets, TLC

VARIABLES
    mem,        \* simplifier: memory around the buffer, address -> character
    src,        \* simplifier: read pointer (value at the top of the loop)
    dst,        \* simplifier: write pointer
    nesting,    \* simplifier: bracket depth while discarding, 0 otherwise
    pc,         \* simplifier: "scan" | "done" | "fault"
    calls,      \* simplifier: number of calls made on the buffer so far
    input,      \* simplifier: the string the first call was given
    text,       \* simplifier: the string in the buffer when the current call began
    build,      \* inspection: how the file was compiled, [vs2005, ndebug]
    type_name,  \* inspection: the type name passed in
    blob,       \* inspection: the fields of the object at p
    heap,       \* inspection: the initialised memory the blob's pointers reach
    el_size,    \* inspection: the element size passed in
    handled,    \* inspection: an entry of the table matched
    valid,      \* inspection: what get_container_info returned
    ret,        \* inspection: the return value, "none" before the return
    el_count,   \* inspection: *el_count
    el_iterator,\* inspection: *el_iterator, the Any_ class stl_iterator is instantiated for
    it_mem,     \* inspection: the cursor stored in it_mem
    cpc,        \* inspection: "call" | "returned" | "trapped" | "hung"
    fault,      \* inspection: the call that trapped, "none" otherwise
    out         \* inspection: the addresses el_iterator has returned so far

svars == <<mem, src, dst, nesting, pc, calls, input, text>>

cvars == <<build, type_name, blob, heap, el_size, handled, valid, ret, el_count,
           el_iterator, it_mem, cpc, fault, out>>

vars == <<svars, cvars>>

\* stl_simplify_name takes the buffer only: no inspection is in progress
NoInspection ==
    /\ build = [vs2005 |-> FALSE, ndebug |-> FALSE]
    /\ type_name = <<>>
    /\ blob = <<>>
    /\ heap = <<>>
    /\ el_size = 0
    /\ handled = FALSE
    /\ valid = FALSE
    /\ ret = "none"
    /\ el_count = 0
    /\ el_iterator = "none"
    /\ it_mem = <<>>
    /\ cpc = "idle"
    /\ fault = "none"
    /\ out = <<>>

\* stl_get_container_info takes no buffer: no simplification is in progress
NoSimplify ==
    /\ mem = <<>>
    /\ src = 0
    /\ dst = 0
    /\ nesting = 0
    /\ pc = "idle"
    /\ calls = 0
    /\ input = <<>>
    /\ text = <<>>

(***************************************************************************)
(* Bounds of the model.                                                    *)
(***************************************************************************)
\* longest input, counted in tokens of Tokens
MaxTokens == 3
\* calls of stl_simplify_name made on one buffer
MaxCalls == 2
\* bytes of the buffer modelled after the input's terminator
TailLen == 9

(***************************************************************************)
(* Characters and strings.  A C string is a sequence of one-character      *)
(* strings; NUL is the terminator.                                         *)
(***************************************************************************)
NUL == "NUL"
\* a byte that is part of no pattern: uninitialised or foreign memory
Junk == "#"

P_Node ==
    <<":", ":", "_", "N", "o", "d", "e">>
P_UShort ==
    <<"u", "n", "s", "i", "g", "n", "e", "d", " ", "s", "h", "o", "r", "t">>
P_UInt ==
    <<"u", "n", "s", "i", "g", "n", "e", "d", " ", "i", "n", "t">>
P_UInt64 ==
    <<"u", "n", "s", "i", "g", "n", "e", "d", " ", "_", "_", "i", "n", "t", "6", "4">>
P_Zero ==
    <<",", "0", ">", " ">>
P_ListNod ==
    <<"s", "t", "d", ":", ":", "_", "L", "i", "s", "t", "_", "n", "o", "d">>
P_TreeNod ==
    <<"s", "t", "d", ":", ":", "_", "T", "r", "e", "e", "_", "n", "o", "d">>
P_BasicStringChar ==
    <<"s", "t", "d", ":", ":", "b", "a", "s", "i", "c", "_", "s", "t", "r", "i", "n", "g", "<", "c", "h", "a", "r", ",">>
P_BasicStringWide ==
    <<"s", "t", "d", ":", ":", "b", "a", "s", "i", "c", "_", "s", "t", "r", "i", "n", "g", "<", "u", "n", "s", "i", "g", "n", "e", "d", " ", "s", "h", "o", "r", "t", ",">>
P_CharTraitsChar ==
    <<"s", "t", "d", ":", ":", "c", "h", "a", "r", "_", "t", "r", "a", "i", "t", "s", "<", "c", "h", "a", "r", ">", ",">>
P_CharTraitsWide ==
    <<"s", "t", "d", ":", ":", "c", "h", "a", "r", "_", "t", "r", "a", "i", "t", "s", "<", "u", "n", "s", "i", "g", "n", "e", "d", " ", "s", "h", "o", "r", "t", ">", ",">>
P_TmapTraits ==
    <<"s", "t", "d", ":", ":", "_", "T", "m", "a", "p", "_", "t", "r", "a", "i", "t", "s">>
P_TsetTraits ==
    <<"s", "t", "d", ":", ":", "_", "T", "s", "e", "t", "_", "t", "r", "a", "i", "t", "s">>
P_Allocator ==
    <<"s", "t", "d", ":", ":", "a", "l", "l", "o", "c", "a", "t", "o", "r", "<">>
P_Less ==
    <<"s", "t", "d", ":", ":", "l", "e", "s", "s", "<">>
P_Std ==
    <<"s", "t", "d", ":", ":">>

(***************************************************************************)
(* stl_simplify_name: inputs.                                              *)
(***************************************************************************)
RECURSIVE Concat(_)
Concat(ss) ==
    IF ss = <<>> THEN <<>> ELSE Head(ss) \o Concat(Tail(ss))

\* the pieces the modelled inputs are built from: plain text, brackets, and
\* some of the patterns of the rule chain
Tokens ==
    { <<"a">>, <<"s", "t", "d">>, <<":", ":">>, <<" ">>, <<",">>, <<">">>,
      <<"<", "b", ">", " ", ">">>,
      P_Node, P_Std, P_Less, P_Allocator, P_UInt, P_CharTraitsChar }

Inputs ==
    { Concat(ts) : ts \in UNION { [1..n -> Tokens] : n \in 0..MaxTokens } }

\* address of the first byte of the buffer
name == 0

\* lowest modelled address: every "dst--" needs a token of its own
MemLo == name - MaxTokens

\* the buffer holding s and its terminator, the g bytes after the terminator
\* holding junk (the rest of the tail is zero), and the memory before it
InitMem(s, g) ==
    [a \in MemLo..(name + Len(s) + TailLen) |->
        IF a < name THEN Junk
        ELSE IF a < name + Len(s) THEN s[a - name + 1]
        ELSE IF a = name + Len(s) THEN NUL
        ELSE IF a <= name + Len(s) + g THEN Junk
        ELSE NUL]

\* what the bytes after the terminator may hold when the call is made
TailFills == {0, TailLen - 1}

(***************************************************************************)
(* stl_simplify_name: helpers.                                             *)
(***************************************************************************)
\* !strncmp(p, what, sizeof(what)-1): comparison stops at the first mismatch,
\* so it never reads past a terminator
StrnEq(m, p, what) ==
    \A i \in 1..Len(what) : (p + i - 1) \in DOMAIN m /\ m[p + i - 1] = what[i]

\* strcpy(d, with): the characters of with and its terminator
strcpy(m, d, with) ==
    [a \in DOMAIN m |->
        IF d <= a /\ a < d + Len(with) THEN with[a - d + 1]
        ELSE IF a = d + Len(with) THEN NUL
        ELSE m[a]]

\* *++d = c instead of *d++ = c: the store lands one byte too far
StoreAfterIncrement(m, d, c) ==
    [m EXCEPT ![d + 1] = c]

\* *d = c
Store(m, d, c) ==
    [m EXCEPT ![d] = c]

\* the if/else-if chain of the loop body, in source order
Rules ==
    << [kind |-> "node",    what |-> P_Node,            with |-> <<>>],
       [kind |-> "replace", what |-> P_UShort,          with |-> <<"u", "1", "6">>],
       [kind |-> "replace", what |-> P_UInt,            with |-> <<"u", "i", "n", "t">>],
       [kind |-> "replace", what |-> P_UInt64,          with |-> <<"u", "6", "4">>],
       [kind |-> "strip",   what |-> P_Zero,            with |-> <<>>],
       [kind |-> "early",   what |-> <<>>,              with |-> <<>>],
       [kind |-> "replace", what |-> P_ListNod,         with |-> <<"l", "i", "s", "t">>],
       [kind |-> "replace", what |-> P_TreeNod,         with |-> <<"m", "a", "p">>],
       [kind |-> "replace", what |-> P_BasicStringChar, with |-> <<"s", "t", "r", "i", "n", "g", "<">>],
       [kind |-> "replace", what |-> P_BasicStringWide, with |-> <<"w", "s", "t", "r", "i", "n", "g", "<">>],
       [kind |-> "strip",   what |-> P_CharTraitsChar,  with |-> <<>>],
       [kind |-> "strip",   what |-> P_CharTraitsWide,  with |-> <<>>],
       [kind |-> "strip",   what |-> P_TmapTraits,      with |-> <<>>],
       [kind |-> "strip",   what |-> P_TsetTraits,      with |-> <<>>],
       [kind |-> "alloc",   what |-> P_Allocator,       with |-> <<>>],
       [kind |-> "less",    what |-> P_Less,            with |-> <<>>],
       [kind |-> "strip",   what |-> P_Std,             with |-> <<>>],
       [kind |-> "copy",    what |-> <<>>,              with |-> <<>>] >>

\* the early out: all tests after it start with s
EarlyOut(c) ==
    c # "s"

RuleMatches(r, m, p) ==
    CASE r.kind = "early" -> EarlyOut(m[p])
      [] r.kind = "copy"  -> TRUE
      [] OTHER            -> StrnEq(m, p, r.what)

\* first match wins
FirstRule(m, p) ==
    Rules[CHOOSE i \in 1..Len(Rules) :
            /\ RuleMatches(Rules[i], m, p)
            /\ \A j \in 1..(i - 1) : ~RuleMatches(Rules[j], m, p)]

\* the path one loop iteration takes, reading c = m[p]
Branch(m, p, nest) ==
    IF m[p] = NUL THEN "end"
    ELSE IF nest # 0 THEN "discard"
    ELSE FirstRule(m, p).kind

\* src += n, applied to the preincremented pointer p
Skip(p, n) ==
    p + n

\* the Node rule writes a space unless at the start or after a space
NeedsSpace(m, p) ==
    p # name /\ m[p - 1] # " "

\* the allocator and less rules drop the output's last character when the
\* pattern is preceded by a comma
PrecedingComma(m, p) ==
    p # name /\ m[p - 1] = ","

\* the iteration stores through dst
Writes(m, p, nest) ==
    LET b == Branch(m, p, nest)
    IN  \/ b \in {"end", "replace", "early", "copy"}
        \/ b = "node" /\ NeedsSpace(m, p)

\* the string at address p: the characters before the first terminator
StrLen(m, p) ==
    CHOOSE n \in 0..Cardinality(DOMAIN m) :
        /\ \A k \in 0..(n - 1) : (p + k) \in DOMAIN m /\ m[p + k] # NUL
        /\ (p + n) \notin DOMAIN m \/ m[p + n] = NUL

Terminated(m, p) ==
    (p + StrLen(m, p)) \in DOMAIN m

CStr(m, p) ==
    [i \in 1..StrLen(m, p) |-> m[p + i - 1]]

(***************************************************************************)
(* stl_simplify_name: one action per path through the loop body.           *)
(***************************************************************************)
SimplifyInit ==
    /\ input \in Inputs
    /\ \E g \in TailFills : mem = InitMem(input, g)
    /\ text = input
    /\ src = name - 1
    /\ dst = name
    /\ nesting = 0
    /\ pc = "scan"
    /\ calls = 1
    /\ NoInspection

\* c == '\0': terminate the output and stop
Terminate ==
    /\ pc = "scan"
    /\ Branch(mem, src + 1, nesting) = "end"
    /\ mem' = Store(mem, dst, NUL)
    /\ src' = src + 1
    /\ pc' = "done"
    /\ UNCHANGED <<dst, nesting, calls, input, text, cvars>>

\* nesting != 0: eat the character, counting brackets
Discard ==
    /\ pc = "scan"
    /\ Branch(mem, src + 1, nesting) = "discard"
    /\ nesting' = CASE mem[src + 1] = "<" -> nesting + 1
                    [] mem[src + 1] = ">" -> nesting - 1
                    [] OTHER              -> nesting
    /\ src' = src + 1
    /\ UNCHANGED <<mem, dst, pc, calls, input, text, cvars>>

\* "::_Node"
NodeRule ==
    /\ pc = "scan"
    /\ Branch(mem, src + 1, nesting) = "node"
    /\ IF NeedsSpace(mem, src + 1)
       THEN mem' = Store(mem, dst, " ") /\ dst' = dst + 1
       ELSE UNCHANGED <<mem, dst>>
    /\ src' = Skip(src + 1, 7)
    /\ UNCHANGED <<nesting, pc, calls, input, text, cvars>>

\* REPLACE(what, with)
Replace ==
    /\ pc = "scan"
    /\ Branch(mem, src + 1, nesting) = "replace"
    /\ LET r == FirstRule(mem, src + 1)
       IN  /\ src' = Skip(src + 1, Len(r.what) - 1)
           /\ mem' = strcpy(mem, dst, r.with)
           /\ dst' = dst + Len(r.with)
    /\ UNCHANGED <<nesting, pc, calls, input, text, cvars>>

\* STRIP(what)
Strip ==
    /\ pc = "scan"
    /\ Branch(mem, src + 1, nesting) = "strip"
    /\ src' = Skip(src + 1, Len(FirstRule(mem, src + 1).what) - 1)
    /\ UNCHANGED <<mem, dst, nesting, pc, calls, input, text, cvars>>

\* c != 's': copy the character (early out)
EarlyCopy ==
    /\ pc = "scan"
    /\ Branch(mem, src + 1, nesting) = "early"
    /\ mem' = Store(mem, dst, mem[src + 1])
    /\ dst' = dst + 1
    /\ src' = src + 1
    /\ UNCHANGED <<nesting, pc, calls, input, text, cvars>>

\* "std::allocator<"
AllocatorRule ==
    /\ pc = "scan"
    /\ Branch(mem, src + 1, nesting) = "alloc"
    /\ dst' = IF PrecedingComma(mem, src + 1) THEN dst - 1 ELSE dst
    /\ src' = Skip(src + 1, 15)
    /\ nesting' = 1
    /\ UNCHANGED <<mem, pc, calls, input, text, cvars>>

\* "std::less<"
LessRule ==
    /\ pc = "scan"
    /\ Branch(mem, src + 1, nesting) = "less"
    /\ dst' = IF PrecedingComma(mem, src + 1) THEN dst - 1 ELSE dst
    /\ src' = Skip(src + 1, 10)
    /\ nesting' = 1
    /\ UNCHANGED <<mem, pc, calls, input, text, cvars>>

\* the final else: copy the character
DefaultCopy ==
    /\ pc = "scan"
    /\ Branch(mem, src + 1, nesting) = "copy"
    /\ mem' = Store(mem, dst, mem[src + 1])
    /\ dst' = dst + 1
    /\ src' = src + 1
    /\ UNCHANGED <<nesting, pc, calls, input, text, cvars>>

\* a store through dst below the start of the buffer is out of bounds: it
\* either lands in the memory before the buffer (the actions above) or faults
Fault ==
    /\ pc = "scan"
    /\ dst < name
    /\ Writes(mem, src + 1, nesting)
    /\ pc' = "fault"
    /\ UNCHANGED <<mem, src, dst, nesting, calls, input, text, cvars>>

\* the caller passes the simplified buffer to stl_simplify_name again
Resimplify ==
    /\ pc = "done"
    /\ calls < MaxCalls
    /\ text' = CStr(mem, name)
    /\ src' = name - 1
    /\ dst' = name
    /\ nesting' = 0
    /\ pc' = "scan"
    /\ calls' = calls + 1
    /\ UNCHANGED <<mem, input, cvars>>

SimplifyNext ==
    \/ Terminate
    \/ Discard
    \/ NodeRule
    \/ Replace
    \/ Strip
    \/ EarlyCopy
    \/ AllocatorRule
    \/ LessRule
    \/ DefaultCopy
    \/ Fault
    \/ Resimplify

SpecSimplify == SimplifyInit /\ [][SimplifyNext]_vars

(***************************************************************************)
(* Machine words.  size_t and pointers are 32 bits wide (the code's        *)
(* "size() * 4" is sizeof(int) on IA-32); a word is kept as the 32-bit     *)
(* two's complement integer with the same bits, so 0xFFFFFFFC is -4.       *)
(***************************************************************************)
MaxInt == 2147483647

\* a < b and a <= b on unsigned words
ULt(a, b) ==
    IF (a < 0) = (b < 0) THEN a < b ELSE b < 0

ULe(a, b) ==
    a = b \/ ULt(a, b)

\* a + b and a - b modulo 2^32
Add32(a, b) ==
    IF a >= 0 /\ b >= 0 /\ a > MaxInt - b
    THEN (a - MaxInt - 1) + (b - MaxInt - 1)
    ELSE IF a < 0 /\ b < 0 /\ a < -MaxInt - 1 - b
    THEN (a + MaxInt + 1) + (b + MaxInt + 1)
    ELSE a + b

Sub32(a, b) ==
    Add32(a, IF b = -MaxInt - 1 THEN b ELSE -b)

\* a * 4 modulo 2^32
Shl2(a) ==
    LET u == a % 1073741824
    IN  IF u >= 536870912 THEN (u - 1073741824) * 4 ELSE u * 4

\* a * k modulo 2^32, for a small count k
RECURSIVE Mul32(_, _)
Mul32(a, k) ==
    IF k = 0 THEN 0 ELSE Add32(a, Mul32(a, k - 1))

\* unsigned a / e, for e in 1..MaxInt
UDiv(a, e) ==
    IF a >= 0 THEN a \div e
    ELSE IF e = 1 THEN a
    ELSE LET h == a + MaxInt + 1
         IN  (MaxInt \div e) + (h \div e) + (((MaxInt % e) + 1 + (h % e)) \div e)

\* (a - b) / sizeof(int) on int pointers: the subtraction followed by an
\* arithmetic shift, reinterpreted as size_t (a byte distance that is no
\* multiple of 4 loses its remainder)
PtrDiffInt(a, b) ==
    Sub32(a, b) \div 4

\* the outcome of a computation the CPU may refuse: a value, or a trap
\* (division by zero, access violation, failed assert) with no value
Ok(v) ==
    [trap |-> FALSE, val |-> v]

Trap ==
    [trap |-> TRUE, val |-> 0]

(***************************************************************************)
(* Memory seen through the blob's pointers.  Addresses in HeapLo..HeapHi-1 *)
(* are mapped; a load from any other address is an access violation.  The  *)
(* heap records the cells that were initialised: words (pointers) and      *)
(* bytes (node flags and values); every other mapped cell holds the fill   *)
(* pattern of uninitialised memory.                                        *)
(***************************************************************************)
HeapLo == 65536
HeapHi == HeapLo + 4096

Mapped(a) ==
    HeapLo <= a /\ a < HeapHi

\* 0xCDCDCDCD and 0xCD
JunkWord == -842150451
JunkByte == 205

\* an address outside the mapped range, and a count above every plausible one
Wild == 1048576 * 1024 + 64
Huge == 16777216 + 1

Read32(h, a) ==
    IF ~Mapped(a) THEN Trap
    ELSE IF a \in DOMAIN h.words THEN Ok(h.words[a])
    ELSE Ok(JunkWord)

Read8(h, a) ==
    IF ~Mapped(a) THEN Trap
    ELSE IF a \in DOMAIN h.bytes THEN Ok(h.bytes[a])
    ELSE Ok(JunkByte)

NoCells ==
    [a \in {} |-> 0]

EmptyHeap ==
    [words |-> NoCells, bytes |-> NoCells]

\* address of the inspected object itself
BlobAddr == HeapLo + 64

\* debug_is_bogus_pointer: the address fails the plausibility probe
debug_is_bogus_pointer(p) ==
    ~Mapped(p)

\* container_valid without its test of the count
container_valid_no_count_test(front, count) ==
    ~debug_is_bogus_pointer(front)

\* basic sanity checks shared by all containers
container_valid(front, count) ==
    IF ULt(16777216, count) THEN FALSE
    ELSE IF debug_is_bogus_pointer(front) THEN FALSE
    ELSE TRUE

\* a cursor: the iterator value stored in it_mem
Cursor(ptr, off) ==
    [ptr |-> ptr, off |-> off]

(***************************************************************************)
(* Any_vector, over the layout of std::vector<int>:                        *)
(* _Myfirst, _Mylast, _Myend.                                              *)
(***************************************************************************)
vector_size(b) ==
    IF b._Myfirst = 0 THEN 0 ELSE PtrDiffInt(b._Mylast, b._Myfirst)

vector_capacity(b) ==
    IF b._Myfirst = 0 THEN 0 ELSE PtrDiffInt(b._Myend, b._Myfirst)

\* &front() and &back(): begin() and end() - 1, as int pointers
vector_front(b) ==
    b._Myfirst

vector_back(b) ==
    Sub32(b._Mylast, 4)

\* size() * 4 / el_size
Any_vector_el_count(b, el_sz) ==
    IF el_sz = 0 THEN Trap
    ELSE Ok(UDiv(Shl2(vector_size(b)), el_sz))

Any_vector_valid(b, el_sz) ==
    LET n == Any_vector_el_count(b, el_sz)
    IN  IF n.trap THEN Trap
        ELSE IF n.val # 0 /\ ~container_valid(vector_front(b), n.val) THEN Ok(FALSE)
        ELSE IF ULt(vector_capacity(b), vector_size(b)) THEN Ok(FALSE)
        ELSE IF ULt(vector_back(b), vector_front(b)) THEN Ok(FALSE)
        ELSE Ok(TRUE)

Any_vector_begin(b) ==
    Ok(Cursor(b._Myfirst, 0))

\* Any_vector::iter::advance
Any_vector_advance(it, el_sz) ==
    Cursor(Add32(it.ptr, el_sz), 0)

\* stl_iterator<Any_vector>: the element's address and the advanced cursor
stl_iterator_vector(b, h, it, el_sz) ==
    [st |-> "ok", p |-> it.ptr, it |-> Any_vector_advance(it, el_sz)]

(***************************************************************************)
(* Any_deque (and Any_queue, Any_stack), over the layout of                *)
(* std::deque<int>: _Map, _Mapsize, _Myoff, _Mysize.                       *)
(***************************************************************************)
\* MAX(16 / el_size, 1), for el_size > 0
ElPerBucket(el_sz) ==
    IF 16 \div el_sz >= 1 THEN 16 \div el_sz ELSE 1

\* std::deque<int>::const_iterator::operator*: blocks of _DEQUESIZ = 4 ints,
\* the block index wrapping around the map
deque_native_deref(b, h, off) ==
    LET block0 == UDiv(off, 4)
        idx    == Sub32(off, Shl2(block0))
        block  == IF ULe(b._Mapsize, block0) THEN Sub32(block0, b._Mapsize)
                  ELSE block0
        bucket == Read32(h, Add32(b._Map, Shl2(block)))
    IN  IF bucket.trap THEN Trap ELSE Ok(Add32(bucket.val, Shl2(idx)))

\* Any_deque::get_item
Any_deque_get_item(b, h, i, el_sz) ==
    IF el_sz = 0 THEN Trap
    ELSE LET el_per_bucket == ElPerBucket(el_sz)
             bucket_idx    == UDiv(i, el_per_bucket)
             idx_in_bucket == Sub32(i, Mul32(bucket_idx, el_per_bucket))
             bucket        == Read32(h, Add32(b._Map, Shl2(bucket_idx)))
         IN  IF bucket.trap THEN Trap
             ELSE Ok(Add32(bucket.val, Mul32(idx_in_bucket, el_sz)))

Any_deque_el_count(b, el_sz) ==
    Ok(b._Mysize)

Any_deque_valid(b, h, el_sz) ==
    LET n     == b._Mysize
        front == deque_native_deref(b, h, b._Myoff)
    IN  IF n # 0 /\ front.trap THEN Trap
        ELSE IF n # 0 /\ ~container_valid(front.val, n) THEN Ok(FALSE)
        ELSE IF el_sz = 0 THEN Trap
        ELSE IF ULe(ElPerBucket(el_sz), b._Myoff) THEN Ok(FALSE)
        ELSE IF ULt(Mul32(b._Mapsize, ElPerBucket(el_sz)), b._Mysize) THEN Ok(FALSE)
        ELSE Ok(TRUE)

Any_deque_begin(b) ==
    Ok(Cursor(BlobAddr, b._Myoff))

Res(st, p, it) ==
    [st |-> st, p |-> p, it |-> it]

\* stl_iterator<Any_deque>: deref(el_size), then the native ++
stl_iterator_deque(b, h, it, el_sz) ==
    LET p == Any_deque_get_item(b, h, it.off, el_sz)
    IN  IF p.trap THEN Res("trap", 0, it)
        ELSE Res("ok", p.val, Cursor(it.ptr, Add32(it.off, 1)))

\* stl_iterator<T> for a T whose const_iterator is the deque's: the native
\* operator* and ++
stl_iterator_generic_deque(b, h, it, el_sz) ==
    LET p == deque_native_deref(b, h, it.off)
    IN  IF p.trap THEN Res("trap", 0, it)
        ELSE Res("ok", p.val, Cursor(it.ptr, Add32(it.off, 1)))

(***************************************************************************)
(* Any_list, over the layout of std::list<int>: _Myhead, _Mysize; a node   *)
(* is _Next, _Prev, _Myval.                                                *)
(***************************************************************************)
Any_list_begin(b, h) ==
    LET n == Read32(h, b._Myhead)
    IN  IF n.trap THEN Trap ELSE Ok(Cursor(n.val, 0))

Any_list_el_count(b, el_sz) ==
    Ok(b._Mysize)

Any_list_valid(b, h, el_sz) ==
    LET it == Any_list_begin(b, h)
    IN  IF it.trap THEN Trap
        ELSE Ok(container_valid(Add32(it.val.ptr, 8), b._Mysize))

stl_iterator_generic_list(b, h, it, el_sz) ==
    LET n == Read32(h, it.ptr)
    IN  IF n.trap THEN Res("trap", 0, it)
        ELSE Res("ok", Add32(it.ptr, 8), Cursor(n.val, 0))

(***************************************************************************)
(* Any_map, Any_multimap, Any_set, Any_multiset, over the layout of the    *)
(* red-black tree: _Myhead, _Mysize; a node is _Left, _Parent, _Right,     *)
(* _Myval, _Color, _Isnil.                                                 *)
(***************************************************************************)
\* sizeof(value_type) of the int instantiations std::map<int,int>, std::set<int>
SizeofPair == 8
SizeofInt == 4

\* how the nil flag of a node is read: its offset in the node (after the
\* three pointers and a value of val_size bytes comes _Color, then _Isnil),
\* and whether assert(*p <= 1) is compiled in
Layout(val_size, checked) ==
    [off |-> 13 + val_size, checked |-> checked]

\* Any_map::_Isnil with el_size, and the native _Isnil with sizeof(value_type)
_Isnil(h, lay, node) ==
    LET f == Read8(h, Add32(node, lay.off))
    IN  IF f.trap THEN Trap
        ELSE IF lay.checked /\ f.val > 1 THEN Trap
        ELSE Ok(f.val # 0)

_Left(h, node) ==
    Read32(h, node)

_Parent(h, node) ==
    Read32(h, Add32(node, 4))

_Right(h, node) ==
    Read32(h, Add32(node, 8))

\* a loop that runs for more iterations than there are cells has revisited
\* a node and never ends
Fuel(h) ==
    Cardinality(DOMAIN h.words) + 2

\* while(!_Isnil(_Left(_Pnode))) _Pnode = _Left(_Pnode);
RECURSIVE tree_min(_, _, _, _)
tree_min(h, lay, pnode, fuel) ==
    IF fuel = 0 THEN Res("hang", 0, pnode)
    ELSE LET l == _Left(h, pnode)
         IN  IF l.trap THEN Res("trap", 0, pnode)
             ELSE LET nil == _Isnil(h, lay, l.val)
                  IN  IF nil.trap THEN Res("trap", 0, pnode)
                      ELSE IF nil.val THEN Res("ok", 0, pnode)
                      ELSE tree_min(h, lay, l.val, fuel - 1)

\* while(!_Isnil(_Pnode = _Parent(_Ptr)) && _Ptr == _Right(_Pnode)) _Ptr = _Pnode;
RECURSIVE tree_climb(_, _, _, _)
tree_climb(h, lay, ptr, fuel) ==
    IF fuel = 0 THEN Res("hang", 0, ptr)
    ELSE LET pnode == _Parent(h, ptr)
         IN  IF pnode.trap THEN Res("trap", 0, ptr)
             ELSE LET nil == _Isnil(h, lay, pnode.val)
                      r   == _Right(h, pnode.val)
                  IN  IF nil.trap THEN Res("trap", 0, ptr)
                      ELSE IF nil.val THEN Res("ok", 0, pnode.val)
                      ELSE IF r.trap THEN Res("trap", 0, ptr)
                      ELSE IF ptr = r.val THEN tree_climb(h, lay, pnode.val, fuel - 1)
                      ELSE Res("ok", 0, pnode.val)

\* an advance that only ever climbs
tree_advance_climb_only(h, lay, ptr) ==
    LET nil == _Isnil(h, lay, ptr)
    IN  IF nil.trap THEN Res("trap", 0, ptr)
        ELSE IF nil.val THEN Res("ok", 0, ptr)
        ELSE tree_climb(h, lay, ptr, Fuel(h))

\* Any_map::iter::advance, and the tree iterator's native ++
tree_advance(h, lay, ptr) ==
    LET nil == _Isnil(h, lay, ptr)
    IN  IF nil.trap THEN Res("trap", 0, ptr)
        ELSE IF nil.val THEN Res("ok", 0, ptr)
        ELSE LET r == _Right(h, ptr)
             IN  IF r.trap THEN Res("trap", 0, ptr)
                 ELSE LET rnil == _Isnil(h, lay, r.val)
                      IN  IF rnil.trap THEN Res("trap", 0, ptr)
                          ELSE IF ~rnil.val THEN tree_min(h, lay, r.val, Fuel(h))
                          ELSE tree_climb(h, lay, ptr, Fuel(h))

\* begin(): the head's _Left
tree_begin(b, h) ==
    LET l == _Left(h, b._Myhead)
    IN  IF l.trap THEN Trap ELSE Ok(Cursor(l.val, 0))

tree_el_count(b, el_sz) ==
    Ok(b._Mysize)

\* container_valid(&*begin(), el_count(el_size))
tree_valid(b, h, el_sz) ==
    LET it == tree_begin(b, h)
    IN  IF it.trap THEN Trap
        ELSE Ok(container_valid(Add32(it.val.ptr, 12), b._Mysize))

\* a step over the tree: &*it, then the advance under the given layout
tree_step(h, lay, it) ==
    LET a == tree_advance(h, lay, it.ptr)
    IN  Res(a.st, Add32(it.ptr, 12), Cursor(a.it, 0))

\* stl_iterator<Any_map>: advance(el_size)
stl_iterator_map(b, h, it, el_sz, ndebug) ==
    tree_step(h, Layout(el_sz, ~ndebug), it)

\* stl_iterator<T> for a T whose const_iterator is the tree's: the native ++
stl_iterator_generic_tree(b, h, it, val_size) ==
    tree_step(h, Layout(val_size, FALSE), it)

(***************************************************************************)
(* Any_basic_string, over the layout of std::string: _Bx (the small buffer *)
(* or _Ptr), _Mysize, _Myres.                                              *)
(***************************************************************************)
\* c_str(): the small buffer inside the object while _Myres < _BUF_SIZE
string_c_str(b) ==
    IF ULe(16, b._Myres) THEN b._Ptr ELSE Add32(BlobAddr, 4)

Any_basic_string_el_count(b, el_sz) ==
    Ok(b._Mysize)

Any_basic_string_valid(b, el_sz) ==
    IF ~container_valid(string_c_str(b), b._Mysize) THEN Ok(FALSE)
    ELSE IF el_sz = 0 THEN Trap
    ELSE IF ULt(b._Myres, Sub32(16 \div el_sz, 1)) THEN Ok(FALSE)
    ELSE IF ULt(b._Myres, b._Mysize) THEN Ok(FALSE)
    ELSE Ok(TRUE)

Any_basic_string_begin(b) ==
    Ok(Cursor(string_c_str(b), 0))

stl_iterator_generic_string(b, h, it, el_sz) ==
    Res("ok", it.ptr, Cursor(Add32(it.ptr, 1), 0))

(***************************************************************************)
(* stl_get_container_info: the pattern table and get_container_info<T>.    *)
(***************************************************************************)
\* match_wildcard(s, pre "*" suf)
match_wildcard(s, pre, suf) ==
    /\ Len(s) >= Len(pre) + Len(suf)
    /\ SubSeq(s, 1, Len(pre)) = pre
    /\ SubSeq(s, Len(s) - Len(suf) + 1, Len(s)) = suf

\* STD_CONTAINER(name): Any_##name under the pattern "std::" #name "<*>".
\* The hash_* and slist entries are under HAVE_STL_HASH / HAVE_STL_SLIST,
\* which this configuration does not define.
ContainerTable ==
    << [adapter |-> "deque",        tmpl |-> <<"d", "e", "q", "u", "e">>],
       [adapter |-> "list",         tmpl |-> <<"l", "i", "s", "t">>],
       [adapter |-> "map",          tmpl |-> <<"m", "a", "p">>],
       [adapter |-> "multimap",     tmpl |-> <<"m", "u", "l", "t", "i", "m", "a", "p">>],
       [adapter |-> "set",          tmpl |-> <<"s", "e", "t">>],
       [adapter |-> "multiset",     tmpl |-> <<"m", "u", "l", "t", "i", "s", "e", "t">>],
       [adapter |-> "vector",       tmpl |-> <<"v", "e", "c", "t", "o", "r">>],
       [adapter |-> "basic_string", tmpl |-> <<"b", "a", "s", "i", "c", "_", "s", "t", "r", "i", "n", "g">>],
       [adapter |-> "queue",        tmpl |-> <<"q", "u", "e", "u", "e">>],
       [adapter |-> "stack",        tmpl |-> <<"s", "t", "a", "c", "k">>] >>

EntryMatches(e, s) ==
    match_wildcard(s, P_Std \o e.tmpl \o <<"<">>, <<">">>)

\* the Any_ class the if/else-if chain selects, "none" when handled stays false
AdapterFor(s) ==
    IF \E i \in 1..Len(ContainerTable) : EntryMatches(ContainerTable[i], s)
    THEN ContainerTable[CHOOSE i \in 1..Len(ContainerTable) :
            /\ EntryMatches(ContainerTable[i], s)
            /\ \A j \in 1..(i - 1) : ~EntryMatches(ContainerTable[j], s)].adapter
    ELSE "none"

\* the class whose members Any_T uses: its own, or those of the class it
\* derives from without adding any
Base(T) ==
    CASE T \in {"queue", "stack"} -> "deque"
      [] T = "multimap"           -> "map"
      [] T = "multiset"           -> "set"
      [] OTHER                    -> T

\* t->el_count(el_size)
el_count_of(T, b, el_sz) ==
    CASE Base(T) = "vector"       -> Any_vector_el_count(b, el_sz)
      [] Base(T) = "deque"        -> Any_deque_el_count(b, el_sz)
      [] Base(T) = "list"         -> Any_list_el_count(b, el_sz)
      [] Base(T) = "basic_string" -> Any_basic_string_el_count(b, el_sz)
      [] OTHER                    -> tree_el_count(b, el_sz)

\* t->begin()
begin_of(T, b, h) ==
    CASE Base(T) = "vector"       -> Any_vector_begin(b)
      [] Base(T) = "deque"        -> Any_deque_begin(b)
      [] Base(T) = "list"         -> Any_list_begin(b, h)
      [] Base(T) = "basic_string" -> Any_basic_string_begin(b)
      [] OTHER                    -> tree_begin(b, h)

\* t->valid(el_size)
valid_of(T, b, h, el_sz) ==
    CASE Base(T) = "vector"       -> Any_vector_valid(b, el_sz)
      [] Base(T) = "deque"        -> Any_deque_valid(b, h, el_sz)
      [] Base(T) = "list"         -> Any_list_valid(b, h, el_sz)
      [] Base(T) = "basic_string" -> Any_basic_string_valid(b, el_sz)
      [] OTHER                    -> tree_valid(b, h, el_sz)

\* stl_iterator<T>: the explicit specializations exist for Any_vector,
\* Any_deque and Any_map only; every other T instantiates the generic
\* template over T::const_iterator
stl_iterator(T, b, h, it, el_sz, ndebug) ==
    CASE T = "vector" -> stl_iterator_vector(b, h, it, el_sz)
      [] T = "deque"  -> stl_iterator_deque(b, h, it, el_sz)
      [] T = "map"    -> stl_iterator_map(b, h, it, el_sz, ndebug)
      [] Base(T) = "deque"        -> stl_iterator_generic_deque(b, h, it, el_sz)
      [] Base(T) = "map"          -> stl_iterator_generic_tree(b, h, it, SizeofPair)
      [] Base(T) = "set"          -> stl_iterator_generic_tree(b, h, it, SizeofInt)
      [] Base(T) = "list"         -> stl_iterator_generic_list(b, h, it, el_sz)
      [] Base(T) = "basic_string" -> stl_iterator_generic_string(b, h, it, el_sz)

\* get_container_info<Any_T>: el_count, then begin, then valid; fault names
\* the call that trapped.  The two debug_assert lines compare compile-time
\* sizes with the size parameter and touch no state kept here.
get_container_info(T, b, h, el_sz) ==
    LET n  == el_count_of(T, b, el_sz)
        it == begin_of(T, b, h)
        v  == valid_of(T, b, h, el_sz)
        Out(f, c, i, ok) == [fault |-> f, el_count |-> c, it |-> i, valid |-> ok]
    IN  IF n.trap THEN Out("el_count", 0, Cursor(0, 0), FALSE)
        ELSE IF it.trap THEN Out("begin", n.val, Cursor(0, 0), FALSE)
        ELSE IF v.trap THEN Out("valid", n.val, it.val, FALSE)
        ELSE Out("none", n.val, it.val, v.val)

(***************************************************************************)
(* stl_get_container_info: the inspected objects.                          *)
(***************************************************************************)
\* most elements of a well-formed vector or list, most nodes of a tree
MaxElems == 3
\* most step calls the caller makes
MaxSteps == 4

\* element sizes the caller passes
ElSizes == {0, 1, 2, 4, 8, 12, 17}

\* the names passed in: an instantiation of every template of the table, a
\* type that is no container, and a template name without arguments.  They
\* are ASCII and shorter than DBG_SYMBOL_LEN, so snprintf("%ws") copies them
\* to type_name character by character.
TypeNames ==
    LET Args(T) == IF Base(T) = "map" THEN <<"i", "n", "t", ",", "i", "n", "t">>
                   ELSE IF T = "basic_string" THEN <<"c", "h", "a", "r">>
                   ELSE <<"i", "n", "t">>
    IN  { P_Std \o ContainerTable[i].tmpl \o <<"<">> \o Args(ContainerTable[i].adapter)
            \o <<">">> : i \in 1..Len(ContainerTable) }
        \cup {<<"i", "n", "t">>, P_Std \o <<"v", "e", "c", "t", "o", "r">>}

WithHeap(bs, h) ==
    { [blob |-> b, heap |-> h] : b \in bs }

\* vectors: storage at VecBase
VecBase == HeapLo + 256

VectorBlob(first, last, end) ==
    [_Myfirst |-> first, _Mylast |-> last, _Myend |-> end]

\* n elements of r bytes each, with room for x more
WellFormedVectors ==
    { VectorBlob(VecBase, VecBase + n * r, VecBase + (n + x) * r) :
        n \in 0..MaxElems, r \in ElSizes \ {0}, x \in {0, 1} }

\* uninitialised or corrupted vectors
GarbageVectors ==
    LET G == {0, VecBase, VecBase + 4, VecBase + 8, Sub32(0, 4),
              Add32(VecBase, Shl2(Huge))}
    IN  { VectorBlob(f, l, e) : f \in G, l \in G, e \in G }

\* deques: a map of two buckets at DequeMap
DequeMap == HeapLo + 512
Bucket(i) ==
    HeapLo + 1024 + 64 * i

DequeHeap ==
    [words |-> (DequeMap :> Bucket(0)) @@ (DequeMap + 4 :> Bucket(1)),
     bytes |-> NoCells]

DequeBlobs ==
    WithHeap({ [_Map |-> m, _Mapsize |-> ms, _Myoff |-> o, _Mysize |-> n] :
                 m \in {0, DequeMap, Wild}, ms \in {0, 1, 2},
                 o \in {0, 1, 4, 5}, n \in {0, 1, 2, 4, 5, Huge} },
             DequeHeap)

\* lists: the head node at ListHead, node k at ListNode(k)
ListHead == HeapLo + 1536

ListNode(k) ==
    ListHead + 32 * k

ListHeap(n) ==
    LET At(k) == IF k = 0 \/ k = n + 1 THEN ListHead ELSE ListNode(k)
        Cells == { ListNode(k) : k \in 1..n } \cup {ListHead}
        Idx(a) == (a - ListHead) \div 32
    IN  [words |-> [a \in Cells \cup { c + 4 : c \in Cells } |->
                      IF a \in Cells THEN At(Idx(a) + 1)
                      ELSE IF Idx(a - 4) = 0 THEN At(n) ELSE At(Idx(a - 4) - 1)],
         bytes |-> NoCells]

HeadBlob(head, size) ==
    [_Myhead |-> head, _Mysize |-> size]

\* a head pointer that is null, unmapped, or points at uninitialised memory
GarbageHeads ==
    WithHeap({ HeadBlob(p, n) : p \in {0, Wild, BlobAddr}, n \in {0, 2} },
             EmptyHeap)

ListBlobs ==
    UNION { WithHeap({HeadBlob(ListHead, n), HeadBlob(ListHead, Huge),
                      HeadBlob(ListHead, Huge - 1)}, ListHeap(n)) :
              n \in 0..2 }
    \cup GarbageHeads

\* trees: the head node at TreeHead, the node with the k-th smallest key at
\* NodeAddr(k), which does not grow with k
TreeHead == HeapLo + 2048

NodeAddr(k) ==
    TreeHead + 64 * (((k * 3) % 7) + 1)

\* the shapes of a binary search tree over the keys lo..hi: <<>> or
\* <<left subtree, root key, right subtree>>
RECURSIVE Trees(_, _)
Trees(lo, hi) ==
    IF lo > hi THEN {<<>>}
    ELSE UNION { { <<l, k, r>> : l \in Trees(lo, k - 1), r \in Trees(k + 1, hi) } :
                   k \in lo..hi }

\* a subtree's root, the head standing for every missing child
RootOf(t) ==
    IF t = <<>> THEN TreeHead ELSE NodeAddr(t[2])

RECURSIVE TreeWords(_, _)
TreeWords(t, parent) ==
    IF t = <<>> THEN NoCells
    ELSE LET a == NodeAddr(t[2])
         IN  (a :> RootOf(t[1])) @@ (a + 4 :> parent) @@ (a + 8 :> RootOf(t[3]))
             @@ TreeWords(t[1], a) @@ TreeWords(t[3], a)

\* the bytes of a node after its three pointers: the value (r bytes of vb),
\* the colour, the nil flag
NodeBytes(a, r, vb, nil) ==
    [x \in { a + 12 + j : j \in 0..(r + 1) } |->
        IF x = a + 13 + r THEN nil
        ELSE IF x = a + 12 + r THEN 1
        ELSE vb]

RECURSIVE TreeBytes(_, _, _)
TreeBytes(n, r, vb) ==
    IF n = 0 THEN NodeBytes(TreeHead, r, JunkByte, 1)
    ELSE NodeBytes(NodeAddr(n), r, vb, 0) @@ TreeBytes(n - 1, r, vb)

\* a well-formed tree of n nodes of shape t whose values are r bytes of vb
TreeHeap(t, n, r, vb) ==
    [words |-> (TreeHead :> (IF n = 0 THEN TreeHead ELSE NodeAddr(1)))
               @@ (TreeHead + 4 :> RootOf(t))
               @@ (TreeHead + 8 :> (IF n = 0 THEN TreeHead ELSE NodeAddr(n)))
               @@ TreeWords(t, TreeHead),
     bytes |-> TreeBytes(n, r, vb)]

WellFormedTrees(rs) ==
    { [blob |-> HeadBlob(TreeHead, x[1]), heap |-> TreeHeap(x[2], x[1], x[3], x[4])] :
        x \in UNION { { <<n, t, r, vb>> : t \in Trees(1, n), r \in rs, vb \in {0, 1} } :
                        n \in 0..MaxElems } }

\* a corrupted tree that passes valid(): the first node's right child is a
\* node whose _Left is itself
CyclicTrees(rs) ==
    LET a == NodeAddr(1)
        c == NodeAddr(2)
    IN  { [blob |-> HeadBlob(TreeHead, 2),
           heap |-> [words |-> (TreeHead :> a) @@ (TreeHead + 4 :> a) @@ (TreeHead + 8 :> c)
                               @@ (a :> TreeHead) @@ (a + 4 :> TreeHead) @@ (a + 8 :> c)
                               @@ (c :> c) @@ (c + 4 :> a) @@ (c + 8 :> TreeHead),
                     bytes |-> TreeBytes(2, r, 0)]] : r \in rs }

\* a well-formed tree whose size field is corrupted
OversizedTrees(rs) ==
    { [blob |-> HeadBlob(TreeHead, Huge), heap |-> TreeHeap(<<<<>>, 1, <<>>>>, 1, r, 0)] :
        r \in rs }

TreeBlobs(rs) ==
    WellFormedTrees(rs) \cup CyclicTrees(rs) \cup OversizedTrees(rs) \cup GarbageHeads

\* strings: the characters at HeapLo + 3072 when not in the small buffer
StringBlobs ==
    WithHeap({ [_Ptr |-> p, _Mysize |-> n, _Myres |-> r] :
                 p \in {0, HeapLo + 3072}, n \in {0, 3, 20, Huge}, r \in {0, 15, 31} },
             EmptyHeap)

\* the objects a caller may pass under a type name: the memory of a
\* container of that kind, initialised or not
BlobsFor(s) ==
    LET T == AdapterFor(s)
    IN  CASE T = "none"                -> WithHeap({VectorBlob(0, 0, 0)}, EmptyHeap)
          [] Base(T) = "vector"       -> WithHeap(WellFormedVectors \cup GarbageVectors, EmptyHeap)
          [] Base(T) = "deque"        -> DequeBlobs
          [] Base(T) = "list"         -> ListBlobs
          [] Base(T) = "basic_string" -> StringBlobs
          [] Base(T) = "map"          -> TreeBlobs({SizeofPair, 12})
          [] Base(T) = "set"          -> TreeBlobs({SizeofInt, 8})

\* the compilations of the file: _MSC_VER >= 1400 or not, asserts compiled
\* in or not
Builds ==
    {[vs2005 |-> TRUE, ndebug |-> TRUE]}
    \cup { [vs2005 |-> FALSE, ndebug |-> d] : d \in BOOLEAN }

(***************************************************************************)
(* stl_get_container_info and the caller's loop over el_iterator.          *)
(***************************************************************************)
InspectInit ==
    /\ build \in Builds
    /\ type_name \in TypeNames
    /\ \E o \in BlobsFor(type_name) : blob = o.blob /\ heap = o.heap
    /\ el_size \in ElSizes
    /\ handled = FALSE
    /\ valid = FALSE
    /\ ret = "none"
    /\ el_count = 0
    /\ el_iterator = "none"
    /\ it_mem = Cursor(0, 0)
    /\ cpc = "call"
    /\ fault = "none"
    /\ out = <<>>
    /\ NoSimplify

\* the result of get_container_info for the entry the name matches
Info ==
    get_container_info(AdapterFor(type_name), blob, heap, el_size)

\* #if defined(_MSC_VER) && _MSC_VER >= 1400: return -1
InfoNotSupported ==
    /\ cpc = "call"
    /\ build.vs2005
    /\ ret' = "-1"
    /\ cpc' = "returned"
    /\ UNCHANGED <<build, type_name, blob, heap, el_size, handled, valid,
                   el_count, el_iterator, it_mem, fault, out, svars>>

\* no entry matches: if(!handled) return STL_CNT_UNKNOWN
InfoUnknown ==
    /\ cpc = "call"
    /\ ~build.vs2005
    /\ AdapterFor(type_name) = "none"
    /\ ret' = "STL_CNT_UNKNOWN"
    /\ cpc' = "returned"
    /\ UNCHANGED <<build, type_name, blob, heap, el_size, handled, valid,
                   el_count, el_iterator, it_mem, fault, out, svars>>

\* an entry matches and a call made by get_container_info traps: the
\* function does not return
InfoTrap ==
    /\ cpc = "call"
    /\ ~build.vs2005
    /\ AdapterFor(type_name) # "none"
    /\ Info.fault # "none"
    /\ handled' = TRUE
    /\ fault' = Info.fault
    /\ cpc' = "trapped"
    /\ IF Info.fault = "el_count"
       THEN UNCHANGED <<el_count, el_iterator, it_mem>>
       ELSE /\ el_count' = Info.el_count
            /\ el_iterator' = AdapterFor(type_name)
            /\ IF Info.fault = "begin" THEN UNCHANGED it_mem ELSE it_mem' = Info.it
    /\ UNCHANGED <<build, type_name, blob, heap, el_size, valid, ret, out, svars>>

\* an entry matches and valid() is false: if(!valid) return STL_CNT_INVALID
InfoInvalid ==
    /\ cpc = "call"
    /\ ~build.vs2005
    /\ AdapterFor(type_name) # "none"
    /\ Info.fault = "none"
    /\ ~Info.valid
    /\ handled' = TRUE
    /\ valid' = FALSE
    /\ el_count' = Info.el_count
    /\ el_iterator' = AdapterFor(type_name)
    /\ it_mem' = Info.it
    /\ ret' = "STL_CNT_INVALID"
    /\ cpc' = "returned"
    /\ UNCHANGED <<build, type_name, blob, heap, el_size, fault, out, svars>>

\* an entry matches and valid() is true: return 0
InfoSuccess ==
    /\ cpc = "call"
    /\ ~build.vs2005
    /\ AdapterFor(type_name) # "none"
    /\ Info.fault = "none"
    /\ Info.valid
    /\ handled' = TRUE
    /\ valid' = TRUE
    /\ el_count' = Info.el_count
    /\ el_iterator' = AdapterFor(type_name)
    /\ it_mem' = Info.it
    /\ ret' = "0"
    /\ cpc' = "returned"
    /\ UNCHANGED <<build, type_name, blob, heap, el_size, fault, out, svars>>

\* the caller may call el_iterator once per reported element
MayStep ==
    /\ cpc = "returned"
    /\ ret = "0"
    /\ Len(out) < MaxSteps
    /\ ULt(Len(out), el_count)

\* what el_iterator(it_mem, el_size) does
StepResult ==
    stl_iterator(el_iterator, blob, heap, it_mem, el_size, build.ndebug)

\* el_iterator returns an element address and leaves the cursor advanced
Step ==
    /\ MayStep
    /\ StepResult.st = "ok"
    /\ out' = Append(out, StepResult.p)
    /\ it_mem' = StepResult.it
    /\ UNCHANGED <<build, type_name, blob, heap, el_size, handled, valid, ret,
                   el_count, el_iterator, cpc, fault, svars>>

\* el_iterator reads unmapped memory or fails assert(*p <= 1)
StepTrap ==
    /\ MayStep
    /\ StepResult.st = "trap"
    /\ cpc' = "trapped"
    /\ fault' = "step"
    /\ UNCHANGED <<build, type_name, blob, heap, el_size, handled, valid, ret,
                   el_count, el_iterator, it_mem, out, svars>>

\* el_iterator's loop over the nodes never ends
StepHang ==
    /\ MayStep
    /\ StepResult.st = "hang"
    /\ cpc' = "hung"
    /\ UNCHANGED <<build, type_name, blob, heap, el_size, handled, valid, ret,
                   el_count, el_iterator, it_mem, fault, out, svars>>

InspectNext ==
    \/ InfoNotSupported
    \/ InfoUnknown
    \/ InfoTrap
    \/ InfoInvalid
    \/ InfoSuccess
    \/ Step
    \/ StepTrap
    \/ StepHang

SpecInspect == InspectInit /\ [][InspectNext]_vars

(***************************************************************************)
(* Properties of stl_simplify_name.                                        *)
(***************************************************************************)
\* the literal strings the rule chain looks for
Patterns ==
    { Rules[i].what : i \in { j \in 1..Len(Rules) : Rules[j].what # <<>> } }

OccursAt(what, s, i) ==
    /\ i + Len(what) - 1 <= Len(s)
    /\ \A k \in 1..Len(what) : s[i + k - 1] = what[k]

PatternAt(s, i) ==
    \E what \in Patterns : OccursAt(what, s, i)

\* s holds no occurrence of any pattern
PatternFree(s) ==
    \A i \in 1..Len(s) : ~PatternAt(s, i)

\* the splits of s into before \o what \o after in which no pattern begins
\* in before and after is free of patterns
PlainSplits(s, what) ==
    { i \in 1..Len(s) :
        /\ OccursAt(what, s, i)
        /\ \A j \in 1..(i - 1) : ~PatternAt(s, j)
        /\ PatternFree(SubSeq(s, i + Len(what), Len(s))) }

\* the number of characters of s, from its start, up to and including the
\* '>' that closes a bracket opened just before s; 0 when there is none
RECURSIVE ClosingAt(_, _, _)
ClosingAt(s, i, depth) ==
    IF i > Len(s) THEN 0
    ELSE IF s[i] = ">" /\ depth = 1 THEN i
    ELSE ClosingAt(s, i + 1,
                   CASE s[i] = "<" -> depth + 1
                     [] s[i] = ">" -> depth - 1
                     [] OTHER      -> depth)

\* C1: when stl_simplify_name returns, the buffer holds a null-terminated
\* string that is no longer than the string the call was given.
C1_OutputNoLonger ==
    pc = "done" =>
        /\ Terminated(mem, name)
        /\ StrLen(mem, name) <= Len(text)

\* C2 as stated: simplifying the output of a call yields that output again.
C2_Idempotent ==
    (pc = "done" /\ calls >= 2) => CStr(mem, name) = text

\* C2 as amended: simplifying the output of a call yields that output again
\* whenever that output holds no occurrence of a pattern of the rule chain.
C2_IdempotentOnPatternFree ==
    (pc = "done" /\ calls >= 2 /\ PatternFree(text)) => CStr(mem, name) = text

\* a second call has returned on a pattern-free, non-empty output that the
\* first call had shortened
C2_Witness ==
    /\ pc = "done"
    /\ calls = 2
    /\ PatternFree(text)
    /\ text # <<>>
    /\ text # input
    /\ CStr(mem, name) = text

\* C8: an allocator or less argument whose list nests to depth 2 or more is
\* discarded up to and including the '>' matching the rule's '<', and no
\* further: the output is the text before the rule (less one preceding
\* comma) followed by the text after that '>'.
C8_DiscardEndsAtMatchingBracket ==
    (pc = "done" /\ calls = 1) =>
        \A what \in {P_Allocator, P_Less} : \A i \in 1..Len(input) :
            LET before == SubSeq(input, 1, i - 1)
                rest   == SubSeq(input, i + Len(what), Len(input))
                close  == ClosingAt(rest, 1, 1)
                arg    == SubSeq(rest, 1, close)
                after  == SubSeq(rest, close + 1, Len(rest))
                kept   == IF before # <<>> /\ before[Len(before)] = ","
                          THEN SubSeq(before, 1, Len(before) - 1)
                          ELSE before
            IN  ( /\ OccursAt(what, input, i)
                  /\ \A j \in 1..(i - 1) : ~PatternAt(input, j)
                  /\ close > 0
                  /\ \E k \in 1..Len(arg) : arg[k] = "<"
                  /\ PatternFree(after) )
                => CStr(mem, name) = kept \o after

\* C9: at nesting level 0 the qualifier "::_Node" is removed and nothing
\* else: the text before it and the text after it are kept, with one space
\* in its place unless it starts the buffer or follows a space.
C9_NodeRemovedOnly ==
    (pc = "done" /\ calls = 1) =>
        \A i \in PlainSplits(input, P_Node) :
            LET before == SubSeq(input, 1, i - 1)
                after  == SubSeq(input, i + Len(P_Node), Len(input))
                space  == IF before # <<>> /\ before[Len(before)] # " "
                          THEN <<" ">> ELSE <<>>
            IN  CStr(mem, name) = before \o space \o after

\* C12: in every state of the scan the read position is not past the
\* input's terminator and the write position lies between the start of the
\* buffer and the read position.
C12_CursorsInBounds ==
    pc = "scan" =>
        /\ src + 1 <= name + Len(text)
        /\ name <= dst
        /\ dst <= src + 1

(***************************************************************************)
(* Properties of stl_get_container_info and the step functions.            *)
(***************************************************************************)
\* the call of stl_get_container_info is over, in a build that runs it
Inspected ==
    cpc # "call" /\ ~build.vs2005

\* the blob is a well-formed vector of n elements of r bytes each
VectorHolds(b, n, r) ==
    /\ b._Myfirst = VecBase
    /\ b._Mylast = VecBase + n * r
    /\ ULe(b._Mylast, b._Myend)

\* the blob is a well-formed tree whose values are r bytes each
TreeHolds(b, h, r) ==
    \E o \in WellFormedTrees({r}) : o.blob = b /\ o.heap = h

\* C3: every call of stl_get_container_info returns exactly one result:
\* STL_CNT_UNKNOWN if and only if the name matches no entry, otherwise
\* STL_CNT_INVALID if and only if the matched adapter's valid(el_size) is
\* false, otherwise 0 with element count, step function and cursor populated.
C3_OneResultInOrder ==
    Inspected =>
        LET T == AdapterFor(type_name)
        IN  /\ ret \in {"STL_CNT_UNKNOWN", "STL_CNT_INVALID", "0"}
            /\ (ret = "STL_CNT_UNKNOWN") <=> (T = "none")
            /\ (ret = "STL_CNT_INVALID") <=>
                  (T # "none" /\ ~valid_of(T, blob, heap, el_size).val)
            /\ (ret = "0") =>
                  /\ el_count = el_count_of(T, blob, el_size).val
                  /\ el_iterator = T
                  /\ (out = <<>> => it_mem = begin_of(T, blob, heap).val)

\* C4: for every blob and every element size, valid(el_size) and
\* el_count(el_size) complete and return: neither of them traps.
C4_AdaptersNeverTrap ==
    fault \notin {"el_count", "valid"}

\* C5: for a well-formed vector of N elements of el_size bytes each,
\* inspection succeeds, the reported count is N, and the i-th step call
\* returns front + i * el_size.
C5_VectorCountAndAddresses ==
    \A n \in 1..(MaxElems + 1) :
        (/\ Inspected
         /\ AdapterFor(type_name) = "vector"
         /\ el_size # 0
         /\ VectorHolds(blob, n, el_size))
        => /\ ret = "0"
           /\ el_count = n
           /\ \A i \in 1..Len(out) : out[i] = VecBase + (i - 1) * el_size

\* C6: for a well-formed map of N unique keys whose values are el_size
\* bytes, the reported count is N, the k-th step call returns the node with
\* the k-th smallest key, no step traps or hangs, and after N steps the
\* cursor is the end sentinel.
C6_MapInKeyOrder ==
    (/\ Inspected
     /\ AdapterFor(type_name) = "map"
     /\ TreeHolds(blob, heap, el_size))
    => /\ cpc = "returned"
       /\ el_count = blob._Mysize
       /\ Len(out) <= blob._Mysize
       /\ \A k \in 1..Len(out) : out[k] = NodeAddr(k) + 12
       /\ it_mem.ptr = IF Len(out) = blob._Mysize THEN TreeHead
                       ELSE NodeAddr(Len(out) + 1)

\* a map of three keys whose root holds the middle key has been stepped
\* through to the end sentinel, once descending into a right subtree and
\* twice climbing
C6_Witness ==
    /\ Inspected
    /\ AdapterFor(type_name) = "map"
    /\ TreeHolds(blob, heap, el_size)
    /\ blob._Mysize = 3
    /\ heap.words[TreeHead + 4] = NodeAddr(2)
    /\ Len(out) = 3
    /\ it_mem.ptr = TreeHead

\* C7: under a queue or stack name the step function does what it does
\* under the deque name, and under a multimap name what it does under the
\* map name: each step returns the address and leaves the cursor that the
\* aliased kind's step would.
C7_AliasesStepAlike ==
    [][(MayStep /\ el_iterator \in {"queue", "stack", "multimap"}) =>
         LET r == stl_iterator(Base(el_iterator), blob, heap, it_mem, el_size,
                               build.ndebug)
         IN  \/ r.st = "ok" /\ out' = Append(out, r.p) /\ it_mem' = r.it
             \/ r.st = "trap" /\ cpc' = "trapped"
             \/ r.st = "hang" /\ cpc' = "hung"]_vars

\* C10: Any_vector::valid(el_size) returns false for every blob whose size
\* exceeds its capacity and for every blob whose front address is greater
\* than its back address.
C10_VectorRejectsCorrupt ==
    (/\ Inspected
     /\ AdapterFor(type_name) = "vector"
     /\ \/ ULt(vector_capacity(blob), vector_size(blob))
        \/ ULt(vector_back(blob), vector_front(blob)))
    => ret = "STL_CNT_INVALID"

\* the address that valid() of a list or a tree hands to container_valid:
\* &front(), &*begin()
ProbedFront ==
    LET T == AdapterFor(type_name)
    IN  Add32(begin_of(T, blob, heap).val.ptr, IF Base(T) = "list" THEN 8 ELSE 12)

\* a call for a list or a tree has returned what container_valid decided
ContainerValidDecided ==
    /\ Inspected
    /\ Base(AdapterFor(type_name)) \in {"list", "map", "set"}
    /\ ret \in {"0", "STL_CNT_INVALID"}

\* C11: container_valid(front, el_count) is false whenever el_count is
\* greater than 2^24, false whenever the address fails the bogus-pointer
\* probe, and true exactly when el_count <= 2^24 and the address passes.
C11_ContainerValidExactly ==
    ContainerValidDecided =>
        /\ ULt(16777216, el_count) => ~valid
        /\ debug_is_bogus_pointer(ProbedFront) => ~valid
        /\ valid <=> (ULe(el_count, 16777216) /\ ~debug_is_bogus_pointer(ProbedFront))

\* a list whose count is one above 2^24 and whose front address passes the
\* probe has been reported invalid
C11_Witness ==
    /\ ContainerValidDecided
    /\ Base(AdapterFor(type_name)) = "list"
    /\ el_count = 16777217
    /\ ~debug_is_bogus_pointer(ProbedFront)
    /\ ret = "STL_CNT_INVALID"

\* a consistent vector without elements: never allocated, or with reserved
\* storage of which none is in use
EmptyVector(b) ==
    /\ b._Myfirst = b._Mylast
    /\ \/ b._Myfirst = 0 /\ b._Myend = 0
       \/ b._Myfirst = VecBase /\ ULe(b._Mylast, b._Myend) /\ Mapped(b._Myend)

\* a consistent deque without elements: never allocated, or with a map
\* of which no bucket is in use
EmptyDeque(b) ==
    /\ b._Mysize = 0
    /\ b._Myoff = 0
    /\ \/ b._Map = 0 /\ b._Mapsize = 0
       \/ b._Map = DequeMap /\ b._Mapsize \in {1, 2}

\* C13: an empty container is never reported as invalid: for a consistent
\* vector or deque without elements, inspection returns success with an
\* element count of 0.
C13_EmptyNeverInvalid ==
    (/\ Inspected
     /\ el_size # 0
     /\ \/ AdapterFor(type_name) = "vector" /\ EmptyVector(blob)
        \/ AdapterFor(type_name) = "deque" /\ EmptyDeque(blob))
    => /\ ret = "0"
       /\ el_count = 0

====
